---------------------------- MODULE Spec2Model ----------------------------
(***************************************************************************)
(* docx2python/text_runs.py: collecting the formatting children of a run,  *)
(* a paragraph or a table cell, selecting the styles that are rendered,    *)
(* and writing them as opening and closing tags.                           *)
(*                                                                         *)
(* Python values are modelled as follows.                                  *)
(*   str      a tuple of one-character strings: "sz" is <<"s", "z">>       *)
(*   Optional a tuple of length 0 (None) or 1 (the value)                  *)
(*   tuple    a tuple                                                      *)
(*   list     a tuple                                                      *)
(*   dict     a tuple of <<key, value>> pairs in insertion order, no key   *)
(*            twice                                                        *)
(*   Element  <<tag, attrib, children>>                                    *)
(* A call's outcome is <<status, value, printed>>: status is "return" or   *)
(* the name of the exception raised, value is what was returned, printed   *)
(* the lines written to standard output.                                   *)
(***************************************************************************)
EXTENDS Integers, Sequences, FiniteSets, TLC

VARIABLES
    kind,    \* which functions the caller uses: "r", "p", "tc", or "seq"
    elem,    \* the xml element passed to gather_* and get_*_style
    pc,      \* the caller's position
    attrs,   \* the dict returned by gather_*
    style,   \* the list returned by get_*_style (or supplied by the caller)
    opened,  \* the string returned by style_open
    closed,  \* the string returned by style_close
    stdout,  \* the lines written to standard output
    exc      \* the exception that reached the caller, "" when none did

vars == <<kind, elem, pc, attrs, style, opened, closed, stdout, exc>>

\* Bounds of the model.
MaxChildren == 3
MaxStyleLen == 3

None == <<>>
Some(v) == <<v>>

Return(v) == <<"return", v, <<>>>>
Raise(e) == <<e, <<>>, <<>>>>
Status(out) == out[1]
Value(out) == out[2]
Printed(out) == out[3]
Raised(out) == Status(out) # "return"

---------------------------------------------------------------------------
\* Strings.

\* The characters in use, in code point order.
Chars ==
    <<" ", "\"", "/",
      "0", "1", "2", "3", "4", "5", "6", "7", "8", "9",
      ":", "<", "=", ">",
      "A", "B", "C", "D", "E", "F", "G", "H", "I", "J", "K", "L", "M",
      "N", "O", "P", "Q", "R", "S", "T", "U", "V", "W", "X", "Y", "Z",
      "_",
      "a", "b", "c", "d", "e", "f", "g", "h", "i", "j", "k", "l", "m",
      "n", "o", "p", "q", "r", "s", "t", "u", "v", "w", "x", "y", "z",
      "{", "}">>

Ord == [c \in {Chars[i] : i \in 1..Len(Chars)} |->
          CHOOSE i \in 1..Len(Chars) : Chars[i] = c]

\* The characters the regular expression class \w matches.
WordChars == {Chars[i] : i \in 4..13} \cup {Chars[i] : i \in 18..70}

\* Python's a < b on str: lexicographic by code point.
StrLess(a, b) ==
    \E i \in 1..(Len(a) + 1) :
        /\ \A j \in 1..(i - 1) : j <= Len(b) /\ a[j] = b[j]
        /\ i <= Len(b)
        /\ (i = Len(a) + 1 \/ Ord[a[i]] < Ord[b[i]])

\* str(v) of an Optional[str], as str.format and f-strings apply it.
Str(v) == IF Len(v) = 0 THEN <<"N", "o", "n", "e">> ELSE v[1]

\* sep.join(strs)
RECURSIVE Join(_, _)
Join(sep, strs) ==
    IF Len(strs) = 0 THEN <<>>
    ELSE IF Len(strs) = 1 THEN strs[1]
    ELSE strs[1] \o sep \o Join(sep, Tail(strs))

\* sorted(strs) on a list of str: a stable insertion sort.
RECURSIVE InsertStr(_, _)
InsertStr(sorted, s) ==
    IF Len(sorted) = 0 THEN <<s>>
    ELSE IF StrLess(s, sorted[1]) THEN <<s>> \o sorted
    ELSE <<sorted[1]>> \o InsertStr(Tail(sorted), s)

RECURSIVE SortedStrs(_)
SortedStrs(strs) ==
    IF Len(strs) = 0 THEN <<>>
    ELSE InsertStr(SortedStrs(SubSeq(strs, 1, Len(strs) - 1)), strs[Len(strs)])

\* reversed(seq)
Reversed(seq) == [i \in 1..Len(seq) |-> seq[Len(seq) + 1 - i]]

---------------------------------------------------------------------------
\* dict.

Keys(d) == {d[i][1] : i \in 1..Len(d)}

\* d[k] = v: a new key goes last, a known key keeps its place.
DictSet(d, k, v) ==
    IF k \in Keys(d)
    THEN [i \in 1..Len(d) |-> IF d[i][1] = k THEN <<k, v>> ELSE d[i]]
    ELSE Append(d, <<k, v>>)

\* d[k]
DictAt(d, k) == d[CHOOSE i \in 1..Len(d) : d[i][1] = k][2]

\* d.get(k, None)
DictGet(d, k) == IF k \in Keys(d) THEN Some(DictAt(d, k)) ELSE None

\* {k: v for ...}, the pairs in the order the comprehension yields them.
RECURSIVE DictOf(_)
DictOf(pairs) ==
    IF Len(pairs) = 0 THEN <<>>
    ELSE LET last == pairs[Len(pairs)]
         IN  DictSet(DictOf(SubSeq(pairs, 1, Len(pairs) - 1)), last[1], last[2])

\* sorted(d.items()): tuples compare by their first component; the second is
\* compared only between equal keys, which a dict does not hold.
RECURSIVE InsertItem(_, _)
InsertItem(sorted, it) ==
    IF Len(sorted) = 0 THEN <<it>>
    ELSE IF StrLess(it[1], sorted[1][1]) THEN <<it>> \o sorted
    ELSE <<sorted[1]>> \o InsertItem(Tail(sorted), it)

RECURSIVE SortedItems(_)
SortedItems(d) ==
    IF Len(d) = 0 THEN <<>>
    ELSE InsertItem(SortedItems(SubSeq(d, 1, Len(d) - 1)), d[Len(d)])

---------------------------------------------------------------------------
\* xml.etree.ElementTree.Element and namespace.qn.

Element(tag, attrib, children) == <<tag, attrib, children>>
Tag(x) == x[1]
Attrib(x) == x[2]
Children(x) == x[3]

\* The namespace the prefix w stands for (abbreviated).
NsW == <<"w", "m", "l">>

\* qn("w:" + local): the tag in Clark notation, {namespace}local.
qn(local) == <<"{">> \o NsW \o <<"}">> \o local

\* elem.find(tag): the first child with that tag, or None.
find(x, tag) ==
    LET hits == {i \in 1..Len(Children(x)) : Tag(Children(x)[i]) = tag}
    IN  IF hits = {} THEN None
        ELSE Some(Children(x)[CHOOSE i \in hits : \A j \in hits : i <= j])

\* re.match(r"{.*}(?P<tag_name>\w+)", elem.tag).group("tag_name"): the word
\* after the last "}" that a word character follows. re.match returns None
\* when the tag does not have that shape, and None has no group().
_elem_tag_str(x) ==
    LET t == Tag(x)
        closers == {j \in 1..(Len(t) - 1) : t[j] = "}" /\ t[j + 1] \in WordChars}
    IN  IF Len(t) = 0 \/ t[1] # "{" \/ closers = {} THEN Raise("AttributeError")
        ELSE LET j == CHOOSE c \in closers : \A d \in closers : d <= c
                 e == CHOOSE k \in (j + 1)..Len(t) :
                          /\ \A m \in (j + 1)..k : t[m] \in WordChars
                          /\ (k = Len(t) \/ t[k + 1] \notin WordChars)
             IN  Return(SubSeq(t, j + 1, e))

---------------------------------------------------------------------------
\* The string literals of text_runs.py and of the elements it is given.

s_rPr == <<"r", "P", "r">>
s_pPr == <<"p", "P", "r">>
s_tcPr == <<"t", "c", "P", "r">>
s_val == <<"v", "a", "l">>
s_b == <<"b">>
s_i == <<"i">>
s_u == <<"u">>
s_s == <<"s">>
s_strike == <<"s", "t", "r", "i", "k", "e">>
s_sz == <<"s", "z">>
s_color == <<"c", "o", "l", "o", "r">>
s_rFonts == <<"r", "F", "o", "n", "t", "s">>
s_ascii == <<"a", "s", "c", "i", "i">>
s_spacing == <<"s", "p", "a", "c", "i", "n", "g">>
s_jc == <<"j", "c">>
s_ind == <<"i", "n", "d">>
s_pStyle == <<"p", "S", "t", "y", "l", "e">>
s_before == <<"b", "e", "f", "o", "r", "e">>
s_after == <<"a", "f", "t", "e", "r">>
s_line == <<"l", "i", "n", "e">>
s_lineRule == <<"l", "i", "n", "e", "R", "u", "l", "e">>
s_beforeAutospacing ==
    <<"b", "e", "f", "o", "r", "e", "A", "u", "t", "o", "s", "p", "a", "c",
    "i", "n", "g">>
s_afterAutospacing ==
    <<"a", "f", "t", "e", "r", "A", "u", "t", "o", "s", "p", "a", "c", "i",
    "n", "g">>
s_left == <<"l", "e", "f", "t">>
s_right == <<"r", "i", "g", "h", "t">>
s_hanging == <<"h", "a", "n", "g", "i", "n", "g">>
s_firstLine == <<"f", "i", "r", "s", "t", "L", "i", "n", "e">>
s_gridSpan == <<"g", "r", "i", "d", "S", "p", "a", "n">>
s_tcW == <<"t", "c", "W">>
s_w == <<"w">>
s_type == <<"t", "y", "p", "e">>
s_vMerge == <<"v", "M", "e", "r", "g", "e">>
s_r == <<"r">>
s_p == <<"p">>
s_tc == <<"t", "c">>
s_t == <<"t">>
s_font == <<"f", "o", "n", "t">>
s_size == <<"s", "i", "z", "e">>
s_justification ==
    <<"j", "u", "s", "t", "i", "f", "i", "c", "a", "t", "i", "o", "n">>
s_indentation == <<"i", "n", "d", "e", "n", "t", "a", "t", "i", "o", "n">>

---------------------------------------------------------------------------
\* The collectors.

\* x.attrib.get(qn("w:" + name), None)
AttribGet(x, name) == DictGet(Attrib(x), qn(name))

\* for x in pr: the children of an Element; None is not iterable.
Iter(pr) == IF pr = None THEN Raise("TypeError") ELSE Return(Children(pr[1]))

\* {_elem_tag_str(x): x.attrib.get(qn("w:val"), None) for x in pr}
TagToVal(pr) ==
    LET it == Iter(pr)
        xs == Value(it)
    IN  IF Raised(it) THEN it
        ELSE IF \E i \in 1..Len(xs) : Raised(_elem_tag_str(xs[i]))
        THEN Raise("AttributeError")
        ELSE Return(DictOf([i \in 1..Len(xs) |->
                <<Value(_elem_tag_str(xs[i])), AttribGet(xs[i], s_val)>>]))

gather_tcPr(run_element) ==
    LET tcPr == find(run_element, qn(s_tcPr))
        out == TagToVal(tcPr)
    IN  IF Status(out) = "TypeError" THEN Return(<<>>) ELSE out

\* gather_rPr without its except clause.
gather_rPr_uncaught(run_element) ==
    TagToVal(find(run_element, qn(s_rPr)))

gather_rPr(run_element) ==
    LET rPr == find(run_element, qn(s_rPr))
        out == TagToVal(rPr)
    IN  IF Status(out) = "TypeError" THEN Return(<<>>) ELSE out

\* The dict gather_pPr stores for a spacing child.
SpacingOf(x) ==
    << <<s_before, AttribGet(x, s_before)>>,
       <<s_after, AttribGet(x, s_after)>>,
       <<s_line, AttribGet(x, s_line)>>,
       <<s_lineRule, AttribGet(x, s_lineRule)>>,
       <<s_beforeAutospacing, AttribGet(x, s_beforeAutospacing)>>,
       <<s_afterAutospacing, AttribGet(x, s_afterAutospacing)>> >>

\* The dict gather_pPr stores for an ind child.
IndOf(x) ==
    << <<s_left, AttribGet(x, s_left)>>,
       <<s_right, AttribGet(x, s_right)>>,
       <<s_hanging, AttribGet(x, s_hanging)>>,
       <<s_firstLine, AttribGet(x, s_firstLine)>> >>

\* One pass of gather_pPr's loop, over the child x: the outcome so far (the
\* dict elements, the lines printed) and the outcome after. An exception
\* ends the loop.
pPrStep(sofar, x) ==
    LET elements == Value(sofar)
        tag == _elem_tag_str(x)
        t == Value(tag)
    IN  IF Raised(sofar) THEN sofar
        ELSE IF Raised(tag) THEN <<Status(tag), <<>>, Printed(sofar)>>
        ELSE <<"return",
               IF t = s_spacing THEN DictSet(elements, t, SpacingOf(x))
               ELSE IF t \in {s_jc} THEN DictSet(elements, t, AttribGet(x, s_val))
               ELSE IF t = s_ind THEN DictSet(elements, t, IndOf(x))
               ELSE elements,
               Append(Printed(sofar), t)>>

RECURSIVE pPrLoop(_)
pPrLoop(xs) ==
    IF Len(xs) = 0 THEN Return(<<>>)
    ELSE pPrStep(pPrLoop(SubSeq(xs, 1, Len(xs) - 1)), xs[Len(xs)])

gather_pPr(run_element) ==
    LET pPr == find(run_element, qn(s_pPr))
        it == Iter(pPr)
        out == IF Raised(it) THEN it ELSE pPrLoop(Value(it))
    IN  IF Status(out) = "TypeError"
        THEN <<"return", <<>>, Printed(out)>>
        ELSE out

---------------------------------------------------------------------------
\* The selectors.

\* '{key}="{value}"'
KeyVal(key, value) == key \o <<"=", "\"">> \o Str(value) \o <<"\"">>

\* The loop of get_table_cell_style without its test of the tag.
tcLoop_unfiltered(items) ==
    [i \in 1..Len(items) |-> <<items[i][1], KeyVal(s_val, items[i][2])>>]

\* The loop of get_table_cell_style over the sorted items.
RECURSIVE tcLoop(_)
tcLoop(items) ==
    IF Len(items) = 0 THEN <<>>
    ELSE LET tag == items[Len(items)][1]
             val == items[Len(items)][2]
             style_ == tcLoop(SubSeq(items, 1, Len(items) - 1))
         IN  IF tag \in {s_gridSpan}
             THEN Append(style_, <<tag, KeyVal(s_val, val)>>)
             ELSE style_

get_table_cell_style(run_element) ==
    LET got == gather_tcPr(run_element)
        tcPr2val == Value(got)
    IN  IF Raised(got) THEN got
        ELSE <<"return", tcLoop(SortedItems(tcPr2val)), Printed(got)>>

\* [f'{key}="{value}"' for key, value in val.items()]
Tokens(val) == [i \in 1..Len(val) |-> KeyVal(val[i][1], val[i][2])]

\* The loop of get_paragraph_style over the sorted items:
\* <<style, spacings, indentations>>.
RECURSIVE pLoop(_)
pLoop(items) ==
    IF Len(items) = 0 THEN <<<<>>, <<>>, <<>>>>
    ELSE LET tag == items[Len(items)][1]
             val == items[Len(items)][2]
             acc == pLoop(SubSeq(items, 1, Len(items) - 1))
         IN  IF tag = s_spacing THEN <<acc[1], acc[2] \o Tokens(val), acc[3]>>
             ELSE IF tag = s_ind THEN <<acc[1], acc[2], acc[3] \o Tokens(val)>>
             ELSE IF tag \in {s_jc}
             THEN <<Append(acc[1], <<s_justification, KeyVal(s_val, val)>>),
                    acc[2], acc[3]>>
             ELSE acc

\* The two prepends of get_paragraph_style in the other order.
pFinish_swapped(acc) ==
    LET style0 == acc[1]
        spacings == acc[2]
        indentations == acc[3]
        style1 == IF Len(spacings) > 0
                  THEN <<<<s_spacing, Join(<<" ">>, SortedStrs(spacings))>>>>
                       \o style0
                  ELSE style0
    IN  IF Len(indentations) > 0
        THEN <<<<s_indentation, Join(<<" ">>, SortedStrs(indentations))>>>>
             \o style1
        ELSE style1

\* The two prepends that end get_paragraph_style.
pFinish(acc) ==
    LET style0 == acc[1]
        spacings == acc[2]
        indentations == acc[3]
        style1 == IF Len(indentations) > 0
                  THEN <<<<s_indentation, Join(<<" ">>, SortedStrs(indentations))>>>>
                       \o style0
                  ELSE style0
    IN  IF Len(spacings) > 0
        THEN <<<<s_spacing, Join(<<" ">>, SortedStrs(spacings))>>>> \o style1
        ELSE style1

get_paragraph_style(run_element) ==
    LET got == gather_pPr(run_element)
        pPr2val == Value(got)
    IN  IF Raised(got) THEN got
        ELSE <<"return", pFinish(pLoop(SortedItems(pPr2val))), Printed(got)>>

\* The loop of get_run_style over the sorted items: <<style, font_styles>>.
RECURSIVE rLoop(_)
rLoop(items) ==
    IF Len(items) = 0 THEN <<<<>>, <<>>>>
    ELSE LET tag == items[Len(items)][1]
             val == items[Len(items)][2]
             acc == rLoop(SubSeq(items, 1, Len(items) - 1))
         IN  IF tag \in {s_strike, s_s} THEN <<Append(acc[1], <<s_s, <<>>>>), acc[2]>>
             ELSE IF tag \in {s_b, s_i, s_u}
             THEN <<Append(acc[1], <<tag, <<>>>>), acc[2]>>
             ELSE IF tag = s_sz THEN <<acc[1], Append(acc[2], KeyVal(s_size, val))>>
             ELSE IF tag = s_color
             THEN <<acc[1], Append(acc[2], KeyVal(s_color, val))>>
             ELSE acc

\* get_run_style appending its font entry instead of prepending it.
rFinish_appended(acc) ==
    LET style0 == acc[1]
        font_styles == acc[2]
    IN  IF Len(font_styles) > 0
        THEN Append(style0, <<s_font, Join(<<" ">>, SortedStrs(font_styles))>>)
        ELSE style0

\* get_run_style prepending one font entry for each font token.
rFinish_per_token(acc) ==
    LET style0 == acc[1]
        font_styles == SortedStrs(acc[2])
    IN  [i \in 1..Len(font_styles) |-> <<s_font, font_styles[i]>>] \o style0

\* The prepend that ends get_run_style.
rFinish(acc) ==
    LET style0 == acc[1]
        font_styles == acc[2]
    IN  IF Len(font_styles) > 0
        THEN <<<<s_font, Join(<<" ">>, SortedStrs(font_styles))>>>> \o style0
        ELSE style0

\* get_run_style iterating rPr2val.items() without sorted().
get_run_style_unsorted(run_element) ==
    LET got == gather_rPr(run_element)
        rPr2val == Value(got)
    IN  IF Raised(got) THEN got
        ELSE <<"return", rFinish(rLoop(rPr2val)), Printed(got)>>

get_run_style(run_element) ==
    LET got == gather_rPr(run_element)
        rPr2val == Value(got)
    IN  IF Raised(got) THEN got
        ELSE <<"return", rFinish(rLoop(SortedItems(rPr2val))), Printed(got)>>

---------------------------------------------------------------------------
\* The serializer.

\* " ".join(y): the join without its filter.
TagText_unfiltered(y) ==
    Join(<<" ">>, y)

\* " ".join(x for x in y if x)
TagText(y) ==
    Join(<<" ">>, SelectSeq(y, LAMBDA x : x # <<>>))

style_open(style_) ==
    LET text == [i \in 1..Len(style_) |-> TagText(style_[i])]
    IN  Join(<<>>, [i \in 1..Len(text) |-> <<"<">> \o text[i] \o <<">">>])

\* style_close without reversed().
style_close_unreversed(style_) ==
    Join(<<>>, [i \in 1..Len(style_) |-> <<"<", "/">> \o style_[i][1] \o <<">">>])

style_close(style_) ==
    LET rev == Reversed(style_)
    IN  Join(<<>>, [i \in 1..Len(rev) |-> <<"<", "/">> \o rev[i][1] \o <<">">>])

---------------------------------------------------------------------------
\* The elements and style sequences the functions are called with.

v_32 == <<"3", "2">>
v_24 == <<"2", "4">>
v_red == <<"r", "e", "d">>
v_single == <<"s", "i", "n", "g", "l", "e">>
v_Arial == <<"A", "r", "i", "a", "l">>
v_120 == <<"1", "2", "0">>
v_240 == <<"2", "4", "0">>
v_720 == <<"7", "2", "0">>
v_center == <<"c", "e", "n", "t", "e", "r">>
v_NormalWeb == <<"N", "o", "r", "m", "a", "l", "W", "e", "b">>
v_2 == <<"2">>
v_3 == <<"3">>
v_2880 == <<"2", "8", "8", "0">>
v_dxa == <<"d", "x", "a">>

\* <w:name/>
Flag(name) == Element(qn(name), <<>>, <<>>)
\* <w:name w:val="v"/>
WithVal(name, v) == Element(qn(name), <<<<qn(s_val), v>>>>, <<>>)

\* Children of a <w:rPr>.
RunChildren ==
    { Flag(s_b), Flag(s_i), WithVal(s_u, v_single), Flag(s_strike), Flag(s_s),
      WithVal(s_sz, v_32), WithVal(s_sz, v_24), WithVal(s_color, v_red),
      Element(qn(s_rFonts), <<<<qn(s_ascii), v_Arial>>>>, <<>>) }

\* Children of a <w:pPr>.
ParagraphChildren ==
    { WithVal(s_pStyle, v_NormalWeb),
      Element(qn(s_spacing),
              <<<<qn(s_before), v_120>>, <<qn(s_after), v_120>>>>, <<>>),
      Element(qn(s_spacing), <<<<qn(s_line), v_240>>>>, <<>>),
      WithVal(s_jc, v_center),
      Flag(s_jc),
      Element(qn(s_ind), <<<<qn(s_left), v_720>>>>, <<>>) }

\* Children of a <w:tcPr>.
CellChildren ==
    { Element(qn(s_tcW), <<<<qn(s_w), v_2880>>, <<qn(s_type), v_dxa>>>>, <<>>),
      WithVal(s_gridSpan, v_2), WithVal(s_gridSpan, v_3), Flag(s_vMerge) }

SeqsUpTo(S, n) == UNION {[1..m -> S] : m \in 0..n}

\* The elements <w:tag> with no formatting child, and those whose first
\* child is a <w:prTag> holding up to MaxChildren of the children given.
Elements(tag, prTag, children, content) ==
    { Element(qn(tag), <<>>, <<>>), Element(qn(tag), <<>>, <<content>>) }
    \cup { Element(qn(tag), <<>>, <<Element(qn(prTag), <<>>, xs), content>>) :
             xs \in SeqsUpTo(children, MaxChildren) }

Runs == Elements(s_r, s_rPr, RunChildren, Flag(s_t))
Paragraphs == Elements(s_p, s_pPr, ParagraphChildren, Flag(s_r))
Cells == Elements(s_tc, s_tcPr, CellChildren, Flag(s_p))

\* The entries of the style sequence in the docstrings of style_open and
\* style_close.
StyleEntries ==
    { <<s_font, Join(<<" ">>, <<KeyVal(s_color, Some(v_red)), KeyVal(s_size, Some(v_32))>>)>>,
      <<s_b, <<>>>>, <<s_i, <<>>>>, <<s_u, <<>>>> }

Styles == SeqsUpTo(StyleEntries, MaxStyleLen)

---------------------------------------------------------------------------
\* The caller: collect, select, open, close; or open and close a style
\* sequence of its own.

Init ==
    /\ \/ kind = "r" /\ elem \in Runs /\ style = <<>> /\ pc = "start"
       \/ kind = "p" /\ elem \in Paragraphs /\ style = <<>> /\ pc = "start"
       \/ kind = "tc" /\ elem \in Cells /\ style = <<>> /\ pc = "start"
       \/ kind = "seq" /\ elem = <<>> /\ style \in Styles /\ pc = "selected"
    /\ attrs = <<>>
    /\ opened = <<>>
    /\ closed = <<>>
    /\ stdout = <<>>
    /\ exc = ""

\* A call with the outcome out: what it printed is on standard output, and
\* either its value is in var or its exception has reached the caller.
Call(out, var, next) ==
    /\ stdout' = stdout \o Printed(out)
    /\ IF Raised(out)
       THEN exc' = Status(out) /\ pc' = "raised" /\ var' = var
       ELSE exc' = exc /\ pc' = next /\ var' = Value(out)

Call_gather_rPr ==
    /\ pc = "start" /\ kind = "r"
    /\ Call(gather_rPr(elem), attrs, "collected")
    /\ UNCHANGED <<kind, elem, style, opened, closed>>

Call_gather_pPr ==
    /\ pc = "start" /\ kind = "p"
    /\ Call(gather_pPr(elem), attrs, "collected")
    /\ UNCHANGED <<kind, elem, style, opened, closed>>

Call_gather_tcPr ==
    /\ pc = "start" /\ kind = "tc"
    /\ Call(gather_tcPr(elem), attrs, "collected")
    /\ UNCHANGED <<kind, elem, style, opened, closed>>

Call_get_run_style ==
    /\ pc = "collected" /\ kind = "r"
    /\ Call(get_run_style(elem), style, "selected")
    /\ UNCHANGED <<kind, elem, attrs, opened, closed>>

Call_get_paragraph_style ==
    /\ pc = "collected" /\ kind = "p"
    /\ Call(get_paragraph_style(elem), style, "selected")
    /\ UNCHANGED <<kind, elem, attrs, opened, closed>>

Call_get_table_cell_style ==
    /\ pc = "collected" /\ kind = "tc"
    /\ Call(get_table_cell_style(elem), style, "selected")
    /\ UNCHANGED <<kind, elem, attrs, opened, closed>>

Call_style_open ==
    /\ pc = "selected"
    /\ Call(Return(style_open(style)), opened, "opened")
    /\ UNCHANGED <<kind, elem, attrs, style, closed>>

Call_style_close ==
    /\ pc = "opened"
    /\ Call(Return(style_close(style)), closed, "closed")
    /\ UNCHANGED <<kind, elem, attrs, style, opened>>

Next ==
    \/ Call_gather_rPr
    \/ Call_gather_pPr
    \/ Call_gather_tcPr
    \/ Call_get_run_style
    \/ Call_get_paragraph_style
    \/ Call_get_table_cell_style
    \/ Call_style_open
    \/ Call_style_close

Spec == Init /\ [][Next]_vars

---------------------------------------------------------------------------
\* What the properties below read.

\* The positions at which the selector has returned.
Selected == pc \in {"selected", "opened", "closed"}

\* The formatting-properties child of elem that the functions of this kind
\* look for, as an Optional.
Pr ==
    IF kind = "r" THEN find(elem, qn(s_rPr))
    ELSE IF kind = "p" THEN find(elem, qn(s_pPr))
    ELSE IF kind = "tc" THEN find(elem, qn(s_tcPr))
    ELSE None

HasPr == Pr # None
PrChildren == IF HasPr THEN Children(Pr[1]) ELSE <<>>

\* The local tag name of a child of the formatting-properties node.
Local(x) == SubSeq(Tag(x), Len(NsW) + 3, Len(Tag(x)))

Names(style_) == [i \in 1..Len(style_) |-> style_[i][1]]

\* str split at the character c.
RECURSIVE Split(_, _)
Split(str, c) ==
    IF \A k \in 1..Len(str) : str[k] # c THEN <<str>>
    ELSE LET k == CHOOSE i \in 1..Len(str) :
                      str[i] = c /\ \A j \in 1..(i - 1) : str[j] # c
         IN  <<SubSeq(str, 1, k - 1)>> \o Split(SubSeq(str, k + 1, Len(str)), c)

\* The tags of a string of markup: each piece runs up to its first ">".
RECURSIVE Tags(_)
Tags(str) ==
    IF Len(str) = 0 THEN <<>>
    ELSE IF \A k \in 1..Len(str) : str[k] # ">" THEN <<str>>
    ELSE LET k == CHOOSE i \in 1..Len(str) :
                      str[i] = ">" /\ \A j \in 1..(i - 1) : str[j] # ">"
         IN  <<SubSeq(str, 1, k)>> \o Tags(SubSeq(str, k + 1, Len(str)))

IsTag(t) ==
    /\ Len(t) >= 3
    /\ t[1] = "<"
    /\ t[Len(t)] = ">"
    /\ \A k \in 2..(Len(t) - 1) : t[k] \notin {"<", ">"}

IsOpenTag(t) == IsTag(t) /\ t[2] # "/"
IsCloseTag(t) == IsTag(t) /\ Len(t) >= 4 /\ t[2] = "/"

\* The name in an opening tag: what stands before its first space.
OpenName(t) == Split(SubSeq(t, 2, Len(t) - 1), " ")[1]
\* What a closing tag holds after "</".
CloseBody(t) == SubSeq(t, 3, Len(t) - 1)

\* The tags are properly nested: each closing tag closes the tag opened last.
RECURSIVE Nested(_, _)
Nested(tags, stack) ==
    IF Len(tags) = 0 THEN Len(stack) = 0
    ELSE IF IsCloseTag(tags[1])
    THEN /\ Len(stack) > 0
         /\ stack[Len(stack)] = CloseBody(tags[1])
         /\ Nested(Tail(tags), SubSeq(stack, 1, Len(stack) - 1))
    ELSE /\ IsOpenTag(tags[1])
         /\ Nested(Tail(tags), Append(stack, OpenName(tags[1])))

\* An element like elem, the children of its formatting-properties node
\* replaced by xs.
WithPrChildren(xs) ==
    Element(Tag(elem), Attrib(elem),
            [i \in 1..Len(Children(elem)) |->
                IF Some(Children(elem)[i]) = Pr
                THEN Element(Tag(Pr[1]), Attrib(Pr[1]), xs)
                ELSE Children(elem)[i]])

\* The orders in which the children of elem's formatting-properties node
\* could have stood.
Reorderings ==
    {[i \in 1..Len(PrChildren) |-> PrChildren[f[i]]] :
        f \in Permutations(1..Len(PrChildren))}

\* collect -> select -> style_open / style_close on the element e.
Pipeline(e) ==
    LET got == IF kind = "r" THEN get_run_style(e)
               ELSE IF kind = "p" THEN get_paragraph_style(e)
               ELSE get_table_cell_style(e)
    IN  <<Status(got), style_open(Value(got)), style_close(Value(got))>>

---------------------------------------------------------------------------
\* The properties.

\* C1: for a style sequence of length n >= 1, style_close writes exactly n
\* closing tags, the k-th naming what the (n+1-k)-th opening tag of
\* style_open names, so that open + text + close is properly nested; a
\* closing tag holds the name and nothing else.
C1_OpenCloseSymmetry ==
    (pc = "closed" /\ Len(style) >= 1) =>
        LET o == Tags(opened)
            c == Tags(closed)
            n == Len(style)
        IN  /\ Len(o) = n
            /\ Len(c) = n
            /\ \A k \in 1..n :
                /\ IsOpenTag(o[k])
                /\ IsCloseTag(c[k])
                /\ CloseBody(c[k]) = OpenName(o[n + 1 - k])
                /\ \A m \in 1..Len(CloseBody(c[k])) :
                       CloseBody(c[k])[m] \notin {" ", "=", "\""}
            /\ Nested(o \o c, <<>>)

\* C1: three entries, the first and the last of different names.
C1_Witness ==
    /\ pc = "closed"
    /\ Len(style) >= 3
    /\ style[1][1] # style[3][1]
    /\ \E i \in 1..Len(style) : style[i][2] # <<>>

\* C2: an element with no formatting-properties child gives an empty map
\* and no exception, an empty style sequence, and two empty strings.
C2_NoFormatting ==
    (kind # "seq" /\ ~HasPr) =>
        /\ exc = ""
        /\ pc # "raised"
        /\ attrs = <<>>
        /\ style = <<>>
        /\ opened = <<>>
        /\ closed = <<>>

\* C2: a run that holds its text and no rPr, after the whole pipeline.
C2_Witness ==
    /\ kind = "r"
    /\ ~HasPr
    /\ Len(Children(elem)) = 1
    /\ pc = "closed"

\* C3, as claimed: whatever the order of the children of the
\* formatting-properties node, the pipeline gives the same two strings.
C3_AnyOrder ==
    (pc = "closed" /\ HasPr) =>
        \A xs \in Reorderings :
            Pipeline(WithPrChildren(xs)) = <<"return", opened, closed>>

\* The children with the same tag are the same.
SameTagSameChild ==
    \A i, j \in 1..Len(PrChildren) :
        Tag(PrChildren[i]) = Tag(PrChildren[j]) => PrChildren[i] = PrChildren[j]

\* C3, amended: the same, when the children with the same tag carry the
\* same attributes.
C3_AnyOrderOfDistinct ==
    (pc = "closed" /\ HasPr /\ SameTagSameChild) =>
        \A xs \in Reorderings :
            Pipeline(WithPrChildren(xs)) = <<"return", opened, closed>>

\* C3: a run whose children u, sz, b stand out of sorted order.
C3_Witness ==
    /\ pc = "closed"
    /\ kind = "r"
    /\ SameTagSameChild
    /\ Len(PrChildren) = 3
    /\ Local(PrChildren[1]) = s_u
    /\ Local(PrChildren[2]) = s_sz
    /\ Local(PrChildren[3]) = s_b
    /\ Len(style) = 3

\* The tokens of the font entry that the collected map calls for.
FontTokens ==
    (IF s_color \in Keys(attrs)
     THEN <<KeyVal(s_color, DictAt(attrs, s_color))>> ELSE <<>>)
    \o (IF s_sz \in Keys(attrs)
        THEN <<KeyVal(s_size, DictAt(attrs, s_sz))>> ELSE <<>>)

\* C4: get_run_style returns a font entry exactly when sz or color was
\* collected; it is then the first entry, its tokens size=... and color=...
\* in alphabetical order; sz and color give no entries of their own; every
\* other entry is a bare flag, and the flags' names are in alphabetical
\* order.
C4_FontFirstThenFlags ==
    (Selected /\ kind = "r") =>
        LET names == Names(style)
            fonts == {i \in 1..Len(style) : names[i] = s_font}
            first == IF fonts = {} THEN 1 ELSE 2
        IN  /\ (fonts # {}) <=> (s_sz \in Keys(attrs) \/ s_color \in Keys(attrs))
            /\ fonts \subseteq {1}
            /\ fonts # {} =>
                LET tokens == Split(style[1][2], " ")
                IN  /\ tokens = FontTokens
                    /\ \A i, j \in 1..Len(tokens) :
                           i < j => StrLess(tokens[i], tokens[j])
            /\ \A i \in 1..Len(style) : names[i] \notin {s_sz, s_color}
            /\ \A i \in first..Len(style) : style[i][2] = <<>>
            /\ \A i, j \in first..Len(style) :
                   i < j => ~StrLess(names[j], names[i])

\* C4: a run with u (carrying a value), sz and b, in that order.
C4_Witness ==
    /\ pc = "selected"
    /\ kind = "r"
    /\ Len(PrChildren) = 3
    /\ PrChildren[1] = WithVal(s_u, v_single)
    /\ Local(PrChildren[2]) = s_sz
    /\ Local(PrChildren[3]) = s_b
    /\ Names(style) = <<s_font, s_b, s_u>>

\* The place of a name in the order spacing, indentation, justification.
Rank(name) ==
    IF name = s_spacing THEN 1
    ELSE IF name = s_indentation THEN 2
    ELSE IF name = s_justification THEN 3
    ELSE 0

\* C5: get_paragraph_style returns its entries in the order spacing,
\* indentation, justification, whatever the order of the children.
C5_ParagraphOrder ==
    (Selected /\ kind = "p") =>
        LET names == Names(style)
        IN  /\ \A i \in 1..Len(names) : Rank(names[i]) > 0
            /\ \A i, j \in 1..Len(names) :
                   i < j => Rank(names[i]) < Rank(names[j])
            /\ (\E i \in 1..Len(names) : names[i] = s_spacing)
                   => names[1] = s_spacing
            /\ (\E i \in 1..Len(PrChildren) : Local(PrChildren[i]) = s_spacing)
                   <=> (\E i \in 1..Len(names) : names[i] = s_spacing)
            /\ (\E i \in 1..Len(PrChildren) : Local(PrChildren[i]) = s_ind)
                   <=> (\E i \in 1..Len(names) : names[i] = s_indentation)
            /\ (\E i \in 1..Len(PrChildren) : Local(PrChildren[i]) = s_jc)
                   <=> (\E i \in 1..Len(names) : names[i] = s_justification)

\* C5: a paragraph with jc, ind and spacing, in that order.
C5_Witness ==
    /\ pc = "selected"
    /\ kind = "p"
    /\ Len(PrChildren) = 3
    /\ Local(PrChildren[1]) = s_jc
    /\ Local(PrChildren[2]) = s_ind
    /\ Local(PrChildren[3]) = s_spacing
    /\ Names(style) = <<s_spacing, s_indentation, s_justification>>

\* C6: get_table_cell_style returns one entry, ("gridSpan", 'val="<val>"'),
\* when the cell-properties node has a gridSpan child, and none otherwise,
\* whatever other children the node has.
C6_OnlyGridSpan ==
    (Selected /\ kind = "tc") =>
        LET spans == {i \in 1..Len(PrChildren) : Local(PrChildren[i]) = s_gridSpan}
        IN  IF spans # {}
            THEN /\ Len(style) = 1
                 /\ style[1][1] = s_gridSpan
                 /\ \E i \in spans :
                        style[1][2] =
                            <<"v", "a", "l", "=", "\"">>
                            \o Str(AttribGet(PrChildren[i], s_val)) \o <<"\"">>
            ELSE style = <<>>

\* C6: a cell with tcW, gridSpan and vMerge.
C6_Witness ==
    /\ pc = "selected"
    /\ kind = "tc"
    /\ Len(PrChildren) = 3
    /\ Local(PrChildren[1]) = s_tcW
    /\ PrChildren[2] = WithVal(s_gridSpan, v_2)
    /\ Local(PrChildren[3]) = s_vMerge
    /\ Len(style) = 1

\* C7: no call writes to an output stream or changes the element or the
\* style sequence it is given.
C7_NoEffect ==
    [][/\ stdout' = stdout
       /\ elem' = elem
       /\ (pc \in {"selected", "opened"} => style' = style)]_vars

\* The strings one after the other.
RECURSIVE Concat(_)
Concat(strs) ==
    IF Len(strs) = 0 THEN <<>> ELSE strs[1] \o Concat(Tail(strs))

\* C8: style_open returns, in sequence order and with nothing between them,
\* <name> for an entry whose rendered string is empty and <name rendered>
\* for any other; for the empty sequence, the empty string.
C8_OpenTags ==
    (pc \in {"opened", "closed"}) =>
        opened = Concat([i \in 1..Len(style) |->
                    IF style[i][2] = <<>>
                    THEN <<"<">> \o style[i][1] \o <<">">>
                    ELSE <<"<">> \o style[i][1] \o <<" ">> \o style[i][2]
                         \o <<">">>])

\* C8: three entries out of alphabetical order, with and without attributes.
C8_Witness ==
    /\ pc = "opened"
    /\ Len(style) = 3
    /\ style[1][2] = <<>>
    /\ style[2][2] # <<>>
    /\ StrLess(style[3][1], style[1][1])

\* What the map is to hold for the child x.
Carried(x) ==
    IF kind = "p" /\ Local(x) = s_spacing THEN SpacingOf(x)
    ELSE IF kind = "p" /\ Local(x) = s_ind THEN IndOf(x)
    ELSE AttribGet(x, s_val)

\* C9: when the formatting-properties child is present, the map a collector
\* returns has a key for the local tag name of every child, mapped to what
\* the (last) child of that name carries: its value attribute or None, and
\* for a paragraph's spacing and ind the fixed sub-map.
C9_EveryChildCollected ==
    (pc = "collected" /\ HasPr) =>
        \A i \in 1..Len(PrChildren) :
            /\ Local(PrChildren[i]) \in Keys(attrs)
            /\ (\A j \in (i + 1)..Len(PrChildren) :
                    Local(PrChildren[j]) # Local(PrChildren[i]))
                   => DictAt(attrs, Local(PrChildren[i])) = Carried(PrChildren[i])

\* C10, as claimed: no style name occurs twice in a sequence a selector
\* returns.
C10_NamesDistinct ==
    (Selected /\ kind # "seq") =>
        \A i, j \in 1..Len(style) : style[i][1] = style[j][1] => i = j

\* C10, amended: no style name other than "s" occurs twice; "s" occurs once
\* for each of the tag names strike and s that was collected.
C10_NamesDistinctButS ==
    (Selected /\ kind # "seq") =>
        /\ \A i, j \in 1..Len(style) :
               (style[i][1] = style[j][1] /\ style[i][1] # s_s) => i = j
        /\ Cardinality({i \in 1..Len(style) : style[i][1] = s_s})
               = IF kind = "r"
                 THEN Cardinality(Keys(attrs) \cap {s_strike, s_s})
                 ELSE 0

\* C10: a run with strike, s and sz.
C10_Witness ==
    /\ pc = "selected"
    /\ kind = "r"
    /\ Len(PrChildren) = 3
    /\ Local(PrChildren[1]) = s_strike
    /\ Local(PrChildren[2]) = s_s
    /\ Local(PrChildren[3]) = s_sz
    /\ Names(style) = <<s_font, s_s, s_s>>

============================================================================
